---- MODULE Spec2Model ----
(***************************************************************************)
(* The persistence layer of the reviews application (reviews/models.py):   *)
(* the tables User, Category, Genre, Title, GenreTitle, Review and         *)
(* Comment, their field validators, their storage constraints (unique,     *)
(* foreign key, column range) and their on_delete policies, operated on    *)
(* by concurrent clients through the ORM's operations: full_clean(),       *)
(* save(), delete() and the many-to-many manager's add() and remove().     *)
(*                                                                         *)
(* A validated write is two statements, full_clean() (a read of the        *)
(* tables) and then save() (one INSERT or UPDATE); a delete is two steps,  *)
(* the collector's collect() (reads) and its delete() (one transaction).   *)
(* Another client may act between the two.                                 *)
(***************************************************************************)
EXTENDS Integers, FiniteSets, Sequences, TLC

VARIABLES
    users,        \* rows of User: [id, username, email, role, is_superuser]
    categories,   \* rows of Category: [id, slug]
    genres,       \* rows of Genre: [id, slug]
    titles,       \* rows of Title: [id, year, category]
    genretitles,  \* rows of GenreTitle: [id, title, genre]
    reviews,      \* rows of Review: [id, title, author, score, pub_date]
    comments,     \* rows of Comment: [id, review, author, pub_date]
    seq,          \* the last id each table's autoincrement key handed out
    now,          \* the server's clock
    txn,          \* per client: what it holds between two statements
    result,       \* what the last finished operation reported to its caller
    seen          \* the last evaluation of a user's is_admin / is_moderator

db == <<users, categories, genres, titles, genretitles, reviews, comments>>
vars == <<users, categories, genres, titles, genretitles, reviews, comments,
          seq, now, txn, result, seen>>

(***************************************************************************)
(* Bounds of the model.                                                    *)
(***************************************************************************)
MaxTime == 1        \* the clock runs 0..MaxTime
MaxComments == 1    \* Comment rows ever inserted
MaxLinks == 2       \* GenreTitle rows ever inserted
MaxTitles == 1      \* Title rows ever inserted by a run that creates titles
MaxReviews == 2     \* Review rows ever inserted
MaxRows == 4        \* rows of all tables together, in the run that fills every table

Procs == {"w1", "w2"}
Times == 0..MaxTime

(***************************************************************************)
(* Constants of the program.                                               *)
(***************************************************************************)
NULL == 0                  \* a nullable foreign key's empty value; ids start at 1
MIN_SCORE_VALUE == 1
MAX_SCORE_VALUE == 10
CurrentYear == 2024
USER == "user"
ADMIN == "admin"
MODERATOR == "moderator"
USER_ROLE == {USER, ADMIN, MODERATOR}
DefaultRole == "user"
ReservedUsernames == {"me"}
MalformedUsernames == {"b d"}

Ids(table) == {r.id : r \in table}
Row(table, id) == CHOOSE r \in table : r.id = id

Idle == [pc |-> "idle"]
Ok(op) == [op |-> op, status |-> "ok", kind |-> "none"]
Failed(op, status, kind) == [op |-> op, status |-> status, kind |-> kind]

(***************************************************************************)
(* Field validators, run by full_clean() and never by save().              *)
(***************************************************************************)
validate_year(value) == value <= CurrentYear

validate_username(value) ==
    value \notin ReservedUsernames /\ value \notin MalformedUsernames

ScoreValidNoMin(s) == s <= MAX_SCORE_VALUE

\* Review.score's MinValueValidator and MaxValueValidator
ScoreValid(s) == MIN_SCORE_VALUE <= s /\ s <= MAX_SCORE_VALUE

\* a PositiveSmallIntegerField column: CHECK (col >= 0), two bytes
PositiveSmallInt(v) == 0 <= v /\ v <= 32767

RoleValid(r) == r \in USER_ROLE

(***************************************************************************)
(* Storage constraints, checked by the database inside every statement.    *)
(***************************************************************************)
\* UniqueConstraint(fields=['title', 'author'], name='unique_review')
unique_review(t, a, self) ==
    ~\E r \in reviews : r.title = t /\ r.author = a /\ r.id # self

\* User.username, unique=True
username_unique(name, self) ==
    ~\E u \in users : u.username = name /\ u.id # self

\* User.email, unique=True
email_unique(mail, self) ==
    ~\E u \in users : u.email = mail /\ u.id # self

\* BaseCategoryGenreModel.slug, unique=True, one index per concrete table
slug_unique(table, slug) == ~\E r \in table : r.slug = slug

(***************************************************************************)
(* Review: full_clean(), save() of a new row, save() of a loaded row.      *)
(***************************************************************************)
\* DateTimeField(auto_now_add=True).pre_save: on an INSERT the clock's value
\* replaces whatever the instance holds; on an UPDATE the instance's value
\* (the loaded one unless the caller assigned another) is written.
auto_now(add, assigned, loaded) == now

auto_now_add(add, assigned, loaded) ==
    IF add THEN now
    ELSE IF assigned = {} THEN loaded
    ELSE CHOOSE t \in assigned : TRUE

\* what full_clean() of a Review reports: clean_fields(), then validate_unique()
ReviewCleanError(t, a, s, self) ==
    IF ~(PositiveSmallInt(s) /\ ScoreValid(s)) THEN "invalid"
    ELSE IF t \notin Ids(titles) \/ a \notin Ids(users) THEN "reference"
    ELSE IF ~unique_review(t, a, self) THEN "unique"
    ELSE "none"

ReviewWriteErrorUnchecked(t, a, s, self) ==
    IF ~PositiveSmallInt(s) THEN "check"
    ELSE IF t \notin Ids(titles) \/ a \notin Ids(users) THEN "reference"
    ELSE "none"

\* what the database reports for a Review row written with key `self`
ReviewWriteError(t, a, s, self) ==
    IF ~PositiveSmallInt(s) THEN "check"
    ELSE IF t \notin Ids(titles) \/ a \notin Ids(users) THEN "reference"
    ELSE IF ~unique_review(t, a, self) THEN "unique"
    ELSE "none"

InsertReviewThenFail(op, t, a, s, pd) ==
    LET err == ReviewWriteError(t, a, s, NULL) IN
    /\ reviews' = reviews \cup
            {[id |-> seq.review + 1, title |-> t, author |-> a, score |-> s,
              pub_date |-> auto_now_add(TRUE, pd, now)]}
    /\ seq' = [seq EXCEPT !.review = @ + 1]
    /\ result' = IF err = "none" THEN Ok(op) ELSE Failed(op, "IntegrityError", err)

\* INSERT INTO review
InsertReview(op, t, a, s, pd) ==
    LET err == ReviewWriteError(t, a, s, NULL) IN
    IF err = "none"
    THEN /\ reviews' = reviews \cup
                {[id |-> seq.review + 1, title |-> t, author |-> a, score |-> s,
                  pub_date |-> auto_now_add(TRUE, pd, now)]}
         /\ seq' = [seq EXCEPT !.review = @ + 1]
         /\ result' = Ok(op)
    ELSE /\ UNCHANGED <<reviews, seq>>
         /\ result' = Failed(op, "IntegrityError", err)

\* UPDATE review SET ... WHERE id = row.id, every column from the instance
UpdateReview(op, row, assigned) ==
    LET err == ReviewWriteError(row.title, row.author, row.score, row.id)
        old == Row(reviews, row.id)
    IN  IF err = "none"
        THEN /\ reviews' = (reviews \ {old}) \cup
                    {[row EXCEPT !.pub_date = auto_now_add(FALSE, assigned, row.pub_date)]}
             /\ result' = Ok(op)
        ELSE /\ UNCHANGED reviews
             /\ result' = Failed(op, "IntegrityError", err)

\* review = Review(title=t, author=a, score=s); review.full_clean()
CleanReview(p, t, a, s) ==
    /\ txn[p].pc = "idle"
    /\ seq.review < MaxReviews
    /\ LET err == ReviewCleanError(t, a, s, NULL) IN
       IF err = "none"
       THEN /\ txn' = [txn EXCEPT ![p] = [pc |-> "cleaned", op |-> "create_review",
                                          req |-> [title |-> t, author |-> a, score |-> s]]]
            /\ UNCHANGED result
       ELSE /\ result' = Failed("create_review", "ValidationError", err)
            /\ UNCHANGED txn
    /\ UNCHANGED <<db, seq, now, seen>>

\* review.save() after full_clean()
SaveReview(p) ==
    /\ txn[p].pc = "cleaned"
    /\ txn[p].op = "create_review"
    /\ seq.review < MaxReviews
    /\ InsertReview("create_review", txn[p].req.title, txn[p].req.author,
                    txn[p].req.score, {})
    /\ txn' = [txn EXCEPT ![p] = Idle]
    /\ UNCHANGED <<users, categories, genres, titles, genretitles, comments, now, seen>>

\* Review.objects.create(title=t, author=a, score=s, pub_date=pd): no full_clean()
RawCreateReview(p, t, a, s, pd) ==
    /\ txn[p].pc = "idle"
    /\ seq.review < MaxReviews
    /\ InsertReview("create_review", t, a, s, pd)
    /\ UNCHANGED <<users, categories, genres, titles, genretitles, comments, now, txn, seen>>

\* review = Review.objects.get(pk=id); review.score = s; review.full_clean()
CleanReviewUpdate(p, id, s) ==
    /\ txn[p].pc = "idle"
    /\ IF id \notin Ids(reviews)
       THEN /\ result' = Failed("update_review", "DoesNotExist", "reference")
            /\ UNCHANGED txn
       ELSE LET row == [Row(reviews, id) EXCEPT !.score = s]
                err == ReviewCleanError(row.title, row.author, s, id)
            IN  IF err = "none"
                THEN /\ txn' = [txn EXCEPT ![p] = [pc |-> "cleaned", op |-> "update_review",
                                                   req |-> row]]
                     /\ UNCHANGED result
                ELSE /\ result' = Failed("update_review", "ValidationError", err)
                     /\ UNCHANGED txn
    /\ UNCHANGED <<db, seq, now, seen>>

\* review.save() of the loaded, cleaned instance (the row is still there: no
\* specification below that updates reviews also deletes them)
SaveReviewUpdate(p) ==
    /\ txn[p].pc = "cleaned"
    /\ txn[p].op = "update_review"
    /\ txn[p].req.id \in Ids(reviews)
    /\ UpdateReview("update_review", txn[p].req, {})
    /\ txn' = [txn EXCEPT ![p] = Idle]
    /\ UNCHANGED <<users, categories, genres, titles, genretitles, comments, seq, now, seen>>

\* review = Review.objects.get(pk=id); review.score = s; review.pub_date = pd;
\* review.save(): no full_clean()
RawUpdateReview(p, id, s, pd) ==
    /\ txn[p].pc = "idle"
    /\ IF id \notin Ids(reviews)
       THEN /\ result' = Failed("update_review", "DoesNotExist", "reference")
            /\ UNCHANGED reviews
       ELSE UpdateReview("update_review", [Row(reviews, id) EXCEPT !.score = s], pd)
    /\ UNCHANGED <<users, categories, genres, titles, genretitles, comments, seq, now, txn, seen>>

(***************************************************************************)
(* Comment.                                                                *)
(***************************************************************************)
CommentWriteError(r, a) ==
    IF r \notin Ids(reviews) \/ a \notin Ids(users) THEN "reference" ELSE "none"

\* INSERT INTO comment
InsertComment(op, r, a, pd) ==
    LET err == CommentWriteError(r, a) IN
    IF err = "none"
    THEN /\ comments' = comments \cup
                {[id |-> seq.comment + 1, review |-> r, author |-> a,
                  pub_date |-> auto_now_add(TRUE, pd, now)]}
         /\ seq' = [seq EXCEPT !.comment = @ + 1]
         /\ result' = Ok(op)
    ELSE /\ UNCHANGED <<comments, seq>>
         /\ result' = Failed(op, "IntegrityError", err)

\* comment = Comment(review=r, author=a); comment.full_clean()
CleanComment(p, r, a) ==
    /\ txn[p].pc = "idle"
    /\ seq.comment < MaxComments
    /\ LET err == CommentWriteError(r, a) IN
       IF err = "none"
       THEN /\ txn' = [txn EXCEPT ![p] = [pc |-> "cleaned", op |-> "create_comment",
                                          req |-> [review |-> r, author |-> a]]]
            /\ UNCHANGED result
       ELSE /\ result' = Failed("create_comment", "ValidationError", err)
            /\ UNCHANGED txn
    /\ UNCHANGED <<db, seq, now, seen>>

\* comment.save() after full_clean()
SaveComment(p) ==
    /\ txn[p].pc = "cleaned"
    /\ txn[p].op = "create_comment"
    /\ seq.comment < MaxComments
    /\ InsertComment("create_comment", txn[p].req.review, txn[p].req.author, {})
    /\ txn' = [txn EXCEPT ![p] = Idle]
    /\ UNCHANGED <<users, categories, genres, titles, genretitles, reviews, now, seen>>

\* Comment.objects.create(review=r, author=a, pub_date=pd): no full_clean()
RawCreateComment(p, r, a, pd) ==
    /\ txn[p].pc = "idle"
    /\ seq.comment < MaxComments
    /\ InsertComment("create_comment", r, a, pd)
    /\ UNCHANGED <<users, categories, genres, titles, genretitles, reviews, now, txn, seen>>

\* comment = Comment.objects.get(pk=id); comment.pub_date = pd; comment.save()
RawUpdateComment(p, id, pd) ==
    /\ txn[p].pc = "idle"
    /\ IF id \notin Ids(comments)
       THEN /\ result' = Failed("update_comment", "DoesNotExist", "reference")
            /\ UNCHANGED comments
       ELSE LET old == Row(comments, id)
                err == CommentWriteError(old.review, old.author)
            IN  IF err = "none"
                THEN /\ comments' = (comments \ {old}) \cup
                            {[old EXCEPT !.pub_date = auto_now_add(FALSE, pd, old.pub_date)]}
                     /\ result' = Ok("update_comment")
                ELSE /\ UNCHANGED comments
                     /\ result' = Failed("update_comment", "IntegrityError", err)
    /\ UNCHANGED <<users, categories, genres, titles, genretitles, reviews, seq, now, txn, seen>>

\* the server's clock advances
Tick ==
    /\ now < MaxTime
    /\ now' = now + 1
    /\ UNCHANGED <<db, seq, txn, result, seen>>

(***************************************************************************)
(* User.                                                                   *)
(***************************************************************************)
is_admin_role_only(u) == u.role = ADMIN

\* User.is_admin
is_admin(u) == u.role = ADMIN \/ u.is_superuser

\* User.is_moderator
is_moderator(u) == u.role = MODERATOR

\* what full_clean() of a User reports
UserCleanError(name, mail, role, self) ==
    IF ~(validate_username(name) /\ RoleValid(role)) THEN "invalid"
    ELSE IF ~(username_unique(name, self) /\ email_unique(mail, self)) THEN "unique"
    ELSE "none"

UserWriteErrorNoEmail(name, mail, self) ==
    IF ~username_unique(name, self) THEN "unique" ELSE "none"

\* what the database reports for a User row written with key `self`
UserWriteError(name, mail, self) ==
    IF ~(username_unique(name, self) /\ email_unique(mail, self)) THEN "unique"
    ELSE "none"

\* INSERT INTO user
InsertUser(op, name, mail, role, su) ==
    LET err == UserWriteError(name, mail, NULL) IN
    IF err = "none"
    THEN /\ users' = users \cup
                {[id |-> seq.user + 1, username |-> name, email |-> mail,
                  role |-> role, is_superuser |-> su]}
         /\ seq' = [seq EXCEPT !.user = @ + 1]
         /\ result' = Ok(op)
    ELSE /\ UNCHANGED <<users, seq>>
         /\ result' = Failed(op, "IntegrityError", err)

\* user = User(username=name, email=mail); user.full_clean()
CleanUser(p, name, mail) ==
    /\ txn[p].pc = "idle"
    /\ LET err == UserCleanError(name, mail, DefaultRole, NULL) IN
       IF err = "none"
       THEN /\ txn' = [txn EXCEPT ![p] = [pc |-> "cleaned", op |-> "create_user",
                                          req |-> [username |-> name, email |-> mail]]]
            /\ UNCHANGED result
       ELSE /\ result' = Failed("create_user", "ValidationError", err)
            /\ UNCHANGED txn
    /\ UNCHANGED <<db, seq, now, seen>>

\* user.save() after full_clean()
SaveUser(p) ==
    /\ txn[p].pc = "cleaned"
    /\ txn[p].op = "create_user"
    /\ InsertUser("create_user", txn[p].req.username, txn[p].req.email, DefaultRole, FALSE)
    /\ txn' = [txn EXCEPT ![p] = Idle]
    /\ UNCHANGED <<categories, genres, titles, genretitles, reviews, comments, now, seen>>

\* User.objects.create(username=name, email=mail, role=role, is_superuser=su)
RawCreateUser(p, name, mail, role, su) ==
    /\ txn[p].pc = "idle"
    /\ InsertUser("create_user", name, mail, role, su)
    /\ UNCHANGED <<categories, genres, titles, genretitles, reviews, comments, now, txn, seen>>

\* user = User.objects.get(pk=id); user.username = name; user.role = role;
\* user.is_superuser = su; user.save()
RawUpdateUser(p, id, name, role, su) ==
    /\ txn[p].pc = "idle"
    /\ IF id \notin Ids(users)
       THEN /\ result' = Failed("update_user", "DoesNotExist", "reference")
            /\ UNCHANGED users
       ELSE LET old == Row(users, id)
                err == UserWriteError(name, old.email, id)
            IN  IF err = "none"
                THEN /\ users' = (users \ {old}) \cup
                            {[old EXCEPT !.username = name, !.role = role,
                                         !.is_superuser = su]}
                     /\ result' = Ok("update_user")
                ELSE /\ UNCHANGED users
                     /\ result' = Failed("update_user", "IntegrityError", err)
    /\ UNCHANGED <<categories, genres, titles, genretitles, reviews, comments,
                   seq, now, txn, seen>>

\* user = User.objects.get(pk=id); user.is_admin; user.is_moderator
ReadPredicates(id) ==
    /\ id \in Ids(users)
    /\ seen' = [user |-> id, is_admin |-> is_admin(Row(users, id)),
                is_moderator |-> is_moderator(Row(users, id))]
    /\ UNCHANGED <<db, seq, now, txn, result>>

(***************************************************************************)
(* Category and Genre, the two tables of BaseCategoryGenreModel.           *)
(***************************************************************************)
Taxonomy(kind) == IF kind = "category" THEN categories ELSE genres

\* the unique index on the slug column of the table of `kind`
TableSlugUnique(kind, slug) == slug_unique(Taxonomy(kind), slug)

\* INSERT INTO category / INSERT INTO genre
InsertTaxonomy(op, kind, slug) ==
    IF TableSlugUnique(kind, slug)
    THEN /\ IF kind = "category"
            THEN /\ categories' = categories \cup {[id |-> seq.category + 1, slug |-> slug]}
                 /\ seq' = [seq EXCEPT !.category = @ + 1]
                 /\ UNCHANGED genres
            ELSE /\ genres' = genres \cup {[id |-> seq.genre + 1, slug |-> slug]}
                 /\ seq' = [seq EXCEPT !.genre = @ + 1]
                 /\ UNCHANGED categories
         /\ result' = Ok(op)
    ELSE /\ UNCHANGED <<categories, genres, seq>>
         /\ result' = Failed(op, "IntegrityError", "unique")

\* row = Category(slug=slug) or Genre(slug=slug); row.full_clean()
CleanTaxonomy(p, kind, slug) ==
    /\ txn[p].pc = "idle"
    /\ IF TableSlugUnique(kind, slug)
       THEN /\ txn' = [txn EXCEPT ![p] = [pc |-> "cleaned", op |-> "create_" \o kind,
                                          req |-> [kind |-> kind, slug |-> slug]]]
            /\ UNCHANGED result
       ELSE /\ result' = Failed("create_" \o kind, "ValidationError", "unique")
            /\ UNCHANGED txn
    /\ UNCHANGED <<db, seq, now, seen>>

\* row.save() after full_clean()
SaveTaxonomy(p) ==
    /\ txn[p].pc = "cleaned"
    /\ txn[p].op \in {"create_category", "create_genre"}
    /\ InsertTaxonomy(txn[p].op, txn[p].req.kind, txn[p].req.slug)
    /\ txn' = [txn EXCEPT ![p] = Idle]
    /\ UNCHANGED <<users, titles, genretitles, reviews, comments, now, seen>>

\* Category.objects.create(slug=slug) or Genre.objects.create(slug=slug)
RawCreateTaxonomy(p, kind, slug) ==
    /\ txn[p].pc = "idle"
    /\ InsertTaxonomy("create_" \o kind, kind, slug)
    /\ UNCHANGED <<users, titles, genretitles, reviews, comments, now, txn, seen>>

(***************************************************************************)
(* Title.                                                                  *)
(***************************************************************************)
\* what full_clean() of a Title reports
TitleCleanError(year, cat) ==
    IF ~(PositiveSmallInt(year) /\ validate_year(year)) THEN "invalid"
    ELSE IF cat # NULL /\ cat \notin Ids(categories) THEN "reference"
    ELSE "none"

\* what the database reports for a Title row
TitleWriteError(year, cat) ==
    IF ~PositiveSmallInt(year) THEN "check"
    ELSE IF cat # NULL /\ cat \notin Ids(categories) THEN "reference"
    ELSE "none"

\* INSERT INTO title
InsertTitle(op, year, cat) ==
    LET err == TitleWriteError(year, cat) IN
    IF err = "none"
    THEN /\ titles' = titles \cup {[id |-> seq.title + 1, year |-> year, category |-> cat]}
         /\ seq' = [seq EXCEPT !.title = @ + 1]
         /\ result' = Ok(op)
    ELSE /\ UNCHANGED <<titles, seq>>
         /\ result' = Failed(op, "IntegrityError", err)

\* title = Title(year=year, category_id=cat); title.full_clean()
CleanTitle(p, year, cat) ==
    /\ txn[p].pc = "idle"
    /\ seq.title < MaxTitles
    /\ LET err == TitleCleanError(year, cat) IN
       IF err = "none"
       THEN /\ txn' = [txn EXCEPT ![p] = [pc |-> "cleaned", op |-> "create_title",
                                          req |-> [year |-> year, category |-> cat]]]
            /\ UNCHANGED result
       ELSE /\ result' = Failed("create_title", "ValidationError", err)
            /\ UNCHANGED txn
    /\ UNCHANGED <<db, seq, now, seen>>

\* title.save() after full_clean()
SaveTitle(p) ==
    /\ txn[p].pc = "cleaned"
    /\ txn[p].op = "create_title"
    /\ seq.title < MaxTitles
    /\ InsertTitle("create_title", txn[p].req.year, txn[p].req.category)
    /\ txn' = [txn EXCEPT ![p] = Idle]
    /\ UNCHANGED <<users, categories, genres, genretitles, reviews, comments, now, seen>>

\* Title.objects.create(year=year, category_id=cat): no full_clean()
RawCreateTitle(p, year, cat) ==
    /\ txn[p].pc = "idle"
    /\ seq.title < MaxTitles
    /\ InsertTitle("create_title", year, cat)
    /\ UNCHANGED <<users, categories, genres, genretitles, reviews, comments, now, txn, seen>>

\* Title.objects.filter(pk=id).update(category_id=cat)
RawUpdateTitle(p, id, cat) ==
    /\ txn[p].pc = "idle"
    /\ IF id \notin Ids(titles)
       THEN /\ result' = Failed("update_title", "DoesNotExist", "reference")
            /\ UNCHANGED titles
       ELSE LET old == Row(titles, id)
                err == TitleWriteError(old.year, cat)
            IN  IF err = "none"
                THEN /\ titles' = (titles \ {old}) \cup {[old EXCEPT !.category = cat]}
                     /\ result' = Ok("update_title")
                ELSE /\ UNCHANGED titles
                     /\ result' = Failed("update_title", "IntegrityError", err)
    /\ UNCHANGED <<users, categories, genres, genretitles, reviews, comments,
                   seq, now, txn, seen>>

(***************************************************************************)
(* GenreTitle, the through table of Title.genre.                           *)
(***************************************************************************)
\* what the database reports for a GenreTitle row: two foreign keys, no
\* unique index on the pair
GenreTitleWriteError(t, g) ==
    IF t \notin Ids(titles) \/ g \notin Ids(genres) THEN "reference" ELSE "none"

\* INSERT INTO genretitle
InsertGenreTitle(op, t, g) ==
    LET err == GenreTitleWriteError(t, g) IN
    IF err = "none"
    THEN /\ genretitles' = genretitles \cup
                {[id |-> seq.genretitle + 1, title |-> t, genre |-> g]}
         /\ seq' = [seq EXCEPT !.genretitle = @ + 1]
         /\ result' = Ok(op)
    ELSE /\ UNCHANGED <<genretitles, seq>>
         /\ result' = Failed(op, "IntegrityError", err)

\* GenreTitle.objects.create(title_id=t, genre_id=g)
RawCreateGenreTitle(p, t, g) ==
    /\ txn[p].pc = "idle"
    /\ seq.genretitle < MaxLinks
    /\ InsertGenreTitle("create_genretitle", t, g)
    /\ UNCHANGED <<users, categories, genres, titles, reviews, comments, now, txn, seen>>

\* the genres of a title, as title.genre reads them through the table
GenresOf(t) == {gt.genre : gt \in {x \in genretitles : x.title = t}}

\* title.genre.add(g), first statement: which of the targets are missing
AddGenreCheck(p, t, g) ==
    /\ txn[p].pc = "idle"
    /\ seq.genretitle < MaxLinks
    /\ IF t \notin Ids(titles)
       THEN /\ result' = Failed("add_genre", "DoesNotExist", "reference")
            /\ UNCHANGED txn
       ELSE IF g \in GenresOf(t)
       THEN /\ result' = Ok("add_genre")
            /\ UNCHANGED txn
       ELSE /\ txn' = [txn EXCEPT ![p] = [pc |-> "checked", op |-> "add_genre",
                                          req |-> [title |-> t, genre |-> g]]]
            /\ UNCHANGED result
    /\ UNCHANGED <<db, seq, now, seen>>

\* title.genre.add(g), second statement: the missing rows are inserted
AddGenreInsert(p) ==
    /\ txn[p].pc = "checked"
    /\ txn[p].op = "add_genre"
    /\ seq.genretitle < MaxLinks
    /\ InsertGenreTitle("add_genre", txn[p].req.title, txn[p].req.genre)
    /\ txn' = [txn EXCEPT ![p] = Idle]
    /\ UNCHANGED <<users, categories, genres, titles, reviews, comments, now, seen>>

\* title.genre.remove(g): DELETE FROM genretitle WHERE title_id = t AND genre_id = g
RemoveGenre(p, t, g) ==
    /\ txn[p].pc = "idle"
    /\ IF t \notin Ids(titles)
       THEN /\ result' = Failed("remove_genre", "DoesNotExist", "reference")
            /\ UNCHANGED genretitles
       ELSE /\ genretitles' = {x \in genretitles : ~(x.title = t /\ x.genre = g)}
            /\ result' = Ok("remove_genre")
    /\ UNCHANGED <<users, categories, genres, titles, reviews, comments, seq, now, txn, seen>>

\* GenreTitle.objects.get(pk=id).delete()
DeleteGenreTitle(p, id) ==
    /\ txn[p].pc = "idle"
    /\ IF id \notin Ids(genretitles)
       THEN /\ result' = Failed("delete_genretitle", "DoesNotExist", "reference")
            /\ UNCHANGED genretitles
       ELSE /\ genretitles' = {x \in genretitles : x.id # id}
            /\ result' = Ok("delete_genretitle")
    /\ UNCHANGED <<users, categories, genres, titles, reviews, comments, seq, now, txn, seen>>

(***************************************************************************)
(* delete(): the collector reads the dependent rows, then one transaction  *)
(* deletes or updates them and the row itself; the foreign keys are        *)
(* checked when it commits.                                                *)
(***************************************************************************)
NoForeignKeys(U, C, G, T, GT, R, CM) == TRUE

\* the FOREIGN KEY constraints of the seven tables
ForeignKeysHold(U, C, G, T, GT, R, CM) ==
    /\ \A t \in T : t.category = NULL \/ t.category \in Ids(C)
    /\ \A x \in GT : x.title \in Ids(T) /\ x.genre \in Ids(G)
    /\ \A r \in R : r.title \in Ids(T) /\ r.author \in Ids(U)
    /\ \A c \in CM : c.review \in Ids(R) /\ c.author \in Ids(U)

\* COMMIT of a transaction that leaves the tables as given, or its rollback
Commit(op, U, C, G, T, GT, R, CM) ==
    IF ForeignKeysHold(U, C, G, T, GT, R, CM)
    THEN /\ users' = U /\ categories' = C /\ genres' = G /\ titles' = T
         /\ genretitles' = GT /\ reviews' = R /\ comments' = CM
         /\ result' = Ok(op)
    ELSE /\ UNCHANGED db
         /\ result' = Failed(op, "IntegrityError", "reference")

\* the reads of Collector.collect(): the Review rows of a title or an author
\* and the Title rows of a category are fetched now; Comment and GenreTitle
\* rows are deleted by a query when the transaction runs
Collect(p, op, table, id, held) ==
    /\ txn[p].pc = "idle"
    /\ IF id \notin Ids(table)
       THEN /\ result' = Failed(op, "DoesNotExist", "reference")
            /\ UNCHANGED txn
       ELSE /\ txn' = [txn EXCEPT ![p] = [pc |-> "collected", op |-> op,
                                          req |-> [id |-> id, held |-> held]]]
            /\ UNCHANGED result
    /\ UNCHANGED <<db, seq, now, seen>>

\* title = Title.objects.get(pk=id); title.delete(), the collector's reads
CollectTitle(p, id) ==
    Collect(p, "delete_title", titles, id, {r.id : r \in {x \in reviews : x.title = id}})

TitleCascadeKeepsComments(id, held) ==
    Commit("delete_title", users, categories, genres,
           {t \in titles : t.id # id},
           {x \in genretitles : x.title # id},
           {r \in reviews : r.id \notin held},
           comments)

\* Review.title and GenreTitle.title are on_delete=CASCADE, as is Comment.review
TitleCascade(id, held) ==
    Commit("delete_title", users, categories, genres,
           {t \in titles : t.id # id},
           {x \in genretitles : x.title # id},
           {r \in reviews : r.id \notin held},
           {c \in comments : c.review \notin held})

\* title.delete(), the collector's transaction
DeleteTitle(p) ==
    /\ txn[p].pc = "collected"
    /\ txn[p].op = "delete_title"
    /\ TitleCascade(txn[p].req.id, txn[p].req.held)
    /\ txn' = [txn EXCEPT ![p] = Idle]
    /\ UNCHANGED <<seq, now, seen>>

\* user = User.objects.get(pk=id); user.delete(), the collector's reads
CollectUser(p, id) ==
    Collect(p, "delete_user", users, id, {r.id : r \in {x \in reviews : x.author = id}})

\* Review.author and Comment.author are on_delete=CASCADE, as is Comment.review
UserCascade(id, held) ==
    Commit("delete_user", {u \in users : u.id # id}, categories, genres, titles,
           genretitles,
           {r \in reviews : r.id \notin held},
           {c \in comments : c.review \notin held /\ c.author # id})

\* user.delete(), the collector's transaction
DeleteUser(p) ==
    /\ txn[p].pc = "collected"
    /\ txn[p].op = "delete_user"
    /\ UserCascade(txn[p].req.id, txn[p].req.held)
    /\ txn' = [txn EXCEPT ![p] = Idle]
    /\ UNCHANGED <<seq, now, seen>>

\* category = Category.objects.get(pk=id); category.delete(), the collector's reads
CollectCategory(p, id) ==
    Collect(p, "delete_category", categories, id,
            {t.id : t \in {x \in titles : x.category = id}})

CategoryCascadeDeletesTitles(id, held) ==
    Commit("delete_category", users, {c \in categories : c.id # id}, genres,
           {t \in titles : t.id \notin held},
           {x \in genretitles : x.title \notin held},
           {r \in reviews : r.title \notin held},
           {c \in comments : c.review \notin {r.id : r \in {x \in reviews : x.title \in held}}})

\* Title.category is on_delete=SET_NULL
CategoryCascade(id, held) ==
    Commit("delete_category", users, {c \in categories : c.id # id}, genres,
           {IF t.id \in held THEN [t EXCEPT !.category = NULL] ELSE t : t \in titles},
           genretitles, reviews, comments)

\* category.delete(), the collector's transaction
DeleteCategory(p) ==
    /\ txn[p].pc = "collected"
    /\ txn[p].op = "delete_category"
    /\ CategoryCascade(txn[p].req.id, txn[p].req.held)
    /\ txn' = [txn EXCEPT ![p] = Idle]
    /\ UNCHANGED <<seq, now, seen>>

\* Review.objects.get(pk=id).delete(): Comment.review is on_delete=CASCADE
DeleteReview(p, id) ==
    /\ txn[p].pc = "idle"
    /\ IF id \notin Ids(reviews)
       THEN /\ result' = Failed("delete_review", "DoesNotExist", "reference")
            /\ UNCHANGED db
       ELSE Commit("delete_review", users, categories, genres, titles, genretitles,
                   {r \in reviews : r.id # id},
                   {c \in comments : c.review # id})
    /\ UNCHANGED <<seq, now, txn, seen>>

\* Genre.objects.get(pk=id).delete(): GenreTitle.genre is on_delete=CASCADE
DeleteGenre(p, id) ==
    /\ txn[p].pc = "idle"
    /\ IF id \notin Ids(genres)
       THEN /\ result' = Failed("delete_genre", "DoesNotExist", "reference")
            /\ UNCHANGED db
       ELSE Commit("delete_genre", users, categories, {g \in genres : g.id # id}, titles,
                   {x \in genretitles : x.genre # id}, reviews, comments)
    /\ UNCHANGED <<seq, now, txn, seen>>

(***************************************************************************)
(* Inputs the clients draw from.                                           *)
(***************************************************************************)
Supplied == {{}} \cup {{t} : t \in Times}     \* a pub_date the caller gives, or none
TitleRefs == {1, 2}
UserRefs == {1, 2, 3}
ReviewRefs == {1, 2, 3}
ScoreInputs == {-1, MIN_SCORE_VALUE - 1, MIN_SCORE_VALUE, MAX_SCORE_VALUE,
                MAX_SCORE_VALUE + 1}

NoRead == [user |-> NULL, is_admin |-> FALSE, is_moderator |-> FALSE]
UserRow(id, name, mail) ==
    [id |-> id, username |-> name, email |-> mail, role |-> DefaultRole,
     is_superuser |-> FALSE]
TwoUsers == {UserRow(1, "ann", "a@x.com"), UserRow(2, "bob", "b@x.com")}
OneTitle == {[id |-> 1, year |-> CurrentYear, category |-> NULL]}
EmptySeq == [user |-> 0, category |-> 0, genre |-> 0, title |-> 0,
             genretitle |-> 0, review |-> 0, comment |-> 0]

(***************************************************************************)
(* SpecReview: two clients write reviews of one title by two users.        *)
(***************************************************************************)
InitReview ==
    /\ users = TwoUsers
    /\ titles = OneTitle
    /\ categories = {} /\ genres = {} /\ genretitles = {}
    /\ reviews = {} /\ comments = {}
    /\ seq = [EmptySeq EXCEPT !.user = 2, !.title = 1]
    /\ now = 0
    /\ txn = [p \in Procs |-> Idle]
    /\ result = Ok("none")
    /\ seen = NoRead

NextReview ==
    \/ \E p \in Procs, t \in TitleRefs, a \in UserRefs, s \in ScoreInputs :
            CleanReview(p, t, a, s)
    \/ \E p \in Procs : SaveReview(p)
    \/ \E p \in Procs, t \in TitleRefs, a \in UserRefs, s \in ScoreInputs :
            RawCreateReview(p, t, a, s, {})
    \/ \E p \in Procs, id \in ReviewRefs, s \in ScoreInputs : CleanReviewUpdate(p, id, s)
    \/ \E p \in Procs : SaveReviewUpdate(p)
    \/ \E p \in Procs, id \in ReviewRefs, s \in ScoreInputs : RawUpdateReview(p, id, s, {})

SpecReview == InitReview /\ [][NextReview]_vars

(***************************************************************************)
(* Claims about reviews, checked under SpecReview.                         *)
(***************************************************************************)
ReviewPairsUnique ==
    \A r1, r2 \in reviews :
        (r1.title = r2.title /\ r1.author = r2.author) => r1 = r2

DuplicateReviewRejected ==
    /\ \A p \in Procs :
        (/\ txn[p].pc = "cleaned"
         /\ txn[p].op = "create_review"
         /\ txn'[p].pc = "idle"
         /\ \E r \in reviews : r.title = txn[p].req.title /\ r.author = txn[p].req.author)
        => /\ reviews' = reviews
           /\ result' = Failed("create_review", "IntegrityError", "unique")
    /\ \A r \in reviews' :
        r.id \notin Ids(reviews) =>
            ~\E q \in reviews : q.title = r.title /\ q.author = r.author

\* C1: in every reachable state a (title, author) pair has at most one Review;
\* a save() of a new Review for a pair that already has one fails with the
\* storage layer's uniqueness error and adds no row, so of two clients that
\* both cleaned a Review for the same pair at most one inserts it.
C1_OneReviewPerPair == []ReviewPairsUnique /\ [][DuplicateReviewRejected]_vars

\* C1's case: a create was refused by the unique constraint while the pair's
\* one Review is stored.
C1_Witness ==
    /\ result = Failed("create_review", "IntegrityError", "unique")
    /\ reviews # {}

\* C4 as stated: every stored Review's score is in the validators' range.
C4_EveryStoredScoreInRange ==
    \A r \in reviews : MIN_SCORE_VALUE <= r.score /\ r.score <= MAX_SCORE_VALUE

ScoreColumnRange == \A r \in reviews : 0 <= r.score /\ r.score <= 32767

ValidatedScoreInRange ==
    /\ \A p \in Procs :
        (/\ txn[p].pc = "cleaned"
         /\ txn[p].op \in {"create_review", "update_review"}
         /\ txn'[p].pc = "idle")
        => \A r \in reviews' \ reviews :
                MIN_SCORE_VALUE <= r.score /\ r.score <= MAX_SCORE_VALUE
    /\ \A p \in Procs :
        (txn[p].pc = "idle" /\ txn'[p].pc = "cleaned"
            /\ txn'[p].op \in {"create_review", "update_review"})
        => MIN_SCORE_VALUE <= txn'[p].req.score /\ txn'[p].req.score <= MAX_SCORE_VALUE
    /\ (result' # result /\ result'.status = "ValidationError") => db' = db

\* C4, amended: a Review written through full_clean() and then save() is
\* stored with MIN_SCORE_VALUE <= score <= MAX_SCORE_VALUE, full_clean()
\* refusing any other score with a validation error before anything is
\* written; a stored score is in 0..32767 whichever way it was written.
C4_ValidatedScoreInRange == []ScoreColumnRange /\ [][ValidatedScoreInRange]_vars

\* C4's case: full_clean() refused a score and a Review is stored.
C4_Witness ==
    /\ result \in {Failed("create_review", "ValidationError", "invalid"),
                   Failed("update_review", "ValidationError", "invalid")}
    /\ \E r \in reviews : r.score \in {MIN_SCORE_VALUE, MAX_SCORE_VALUE}

(***************************************************************************)
(* SpecUnique: two clients create users, categories and genres.            *)
(***************************************************************************)
Usernames == {"ann", "bob", "me"}
Emails == {"a@x.com", "b@x.com"}
Slugs == {"s1", "s2"}
Kinds == {"category", "genre"}

InitEmpty ==
    /\ users = {} /\ categories = {} /\ genres = {} /\ titles = {}
    /\ genretitles = {} /\ reviews = {} /\ comments = {}
    /\ seq = EmptySeq
    /\ now = 0
    /\ txn = [p \in Procs |-> Idle]
    /\ result = Ok("none")
    /\ seen = NoRead

NextUnique ==
    \/ \E p \in Procs, name \in Usernames, mail \in Emails : CleanUser(p, name, mail)
    \/ \E p \in Procs : SaveUser(p)
    \/ \E p \in Procs, name \in Usernames, mail \in Emails :
            RawCreateUser(p, name, mail, DefaultRole, FALSE)
    \/ \E p \in Procs, kind \in Kinds, slug \in Slugs : CleanTaxonomy(p, kind, slug)
    \/ \E p \in Procs : SaveTaxonomy(p)
    \/ \E p \in Procs, kind \in Kinds, slug \in Slugs : RawCreateTaxonomy(p, kind, slug)

SpecUnique == InitEmpty /\ [][NextUnique]_vars

KeysUnique ==
    /\ \A u1, u2 \in users : u1.username = u2.username => u1 = u2
    /\ \A u1, u2 \in users : u1.email = u2.email => u1 = u2
    /\ \A c1, c2 \in categories : c1.slug = c2.slug => c1 = c2
    /\ \A g1, g2 \in genres : g1.slug = g2.slug => g1 = g2

DuplicateKeyRejected ==
    \A p \in Procs :
        (txn[p].pc = "cleaned" /\ txn'[p].pc = "idle") =>
            /\ (/\ txn[p].op = "create_user"
                /\ \E u \in users : \/ u.username = txn[p].req.username
                                    \/ u.email = txn[p].req.email)
               => /\ users' = users
                  /\ result' = Failed("create_user", "IntegrityError", "unique")
            /\ (/\ txn[p].op = "create_category"
                /\ \E c \in categories : c.slug = txn[p].req.slug)
               => /\ categories' = categories
                  /\ result' = Failed("create_category", "IntegrityError", "unique")
            /\ (/\ txn[p].op = "create_genre"
                /\ \E g \in genres : g.slug = txn[p].req.slug)
               => /\ genres' = genres
                  /\ result' = Failed("create_genre", "IntegrityError", "unique")

\* C5: in every reachable state no two Users share a username or an email, no
\* two Categories share a slug and no two Genres share a slug; a save() of a
\* new row whose key a concurrent client has inserted meanwhile fails with the
\* storage layer's uniqueness error and adds nothing.
C5_KeysUnique == []KeysUnique /\ [][DuplicateKeyRejected]_vars

\* C5's case: of two concurrent creates with one key the later was refused,
\* while a Category and a Genre share a slug.
C5_Witness ==
    /\ result = Failed("create_user", "IntegrityError", "unique")
    /\ Cardinality(users) = 2
    /\ \E c \in categories : \E g \in genres : c.slug = g.slug

(***************************************************************************)
(* SpecRoles: roles and superuser flags change, the predicates are read.   *)
(***************************************************************************)
RoleInputs == USER_ROLE \cup {"owner"}

NextRoles ==
    \/ \E p \in Procs, name \in {"ann", "bob"}, mail \in Emails, role \in RoleInputs,
          su \in BOOLEAN : RawCreateUser(p, name, mail, role, su)
    \/ \E p \in Procs, name \in {"ann", "bob"}, mail \in Emails : CleanUser(p, name, mail)
    \/ \E p \in Procs : SaveUser(p)
    \/ \E p \in Procs, id \in UserRefs, role \in RoleInputs, su \in BOOLEAN :
            /\ id \in Ids(users)
            /\ RawUpdateUser(p, id, Row(users, id).username, role, su)
    \/ \E id \in UserRefs : ReadPredicates(id)

SpecRoles == InitEmpty /\ [][NextRoles]_vars

PredicatesCurrent ==
    seen' # seen =>
        /\ seen'.user \in Ids(users)
        /\ LET u == Row(users, seen'.user) IN
            /\ seen'.is_admin = (u.role = "admin" \/ u.is_superuser)
            /\ seen'.is_moderator = (u.role = "moderator")

\* C9: whenever a User's predicates are evaluated, is_admin is true exactly
\* when the stored role is admin or the superuser flag is set, and is_moderator
\* exactly when the stored role is moderator, whatever changes of role and
\* flag came before.
C9_PredicatesCurrent == [][PredicatesCurrent]_vars

\* C9's case: a superuser whose role was changed to moderator reads as both,
\* next to a user with the default role and no flag.
C9_Witness ==
    /\ seen.user # NULL
    /\ seen.is_admin /\ seen.is_moderator
    /\ Row(users, seen.user).role = "moderator"
    /\ \E u \in users : u.role = DefaultRole /\ ~u.is_superuser

(***************************************************************************)
(* SpecCascade: titles, users, reviews and genres are deleted by one       *)
(* client or the other while reviews, comments and genre links are created.*)
(***************************************************************************)
OneGenre == {[id |-> 1, slug |-> "s1"]}

InitCascade ==
    /\ users = TwoUsers
    /\ titles = OneTitle
    /\ genres = OneGenre
    /\ categories = {} /\ genretitles = {} /\ reviews = {} /\ comments = {}
    /\ seq = [EmptySeq EXCEPT !.user = 2, !.title = 1, !.genre = 1]
    /\ now = 0
    /\ txn = [p \in Procs |-> Idle]
    /\ result = Ok("none")
    /\ seen = NoRead

NextCascade ==
    \/ \E t \in Ids(OneTitle), a \in Ids(TwoUsers) : CleanReview("w1", t, a, MAX_SCORE_VALUE)
    \/ SaveReview("w1")
    \/ \E p \in Procs, t \in Ids(OneTitle), a \in Ids(TwoUsers) :
            RawCreateReview(p, t, a, MAX_SCORE_VALUE, {})
    \/ \E r \in 1..MaxReviews, a \in Ids(TwoUsers) : RawCreateComment("w1", r, a, {})
    \/ \E t \in Ids(OneTitle), g \in Ids(OneGenre) : RawCreateGenreTitle("w1", t, g)
    \/ \E p \in Procs, t \in Ids(OneTitle) : CollectTitle(p, t)
    \/ \E p \in Procs : DeleteTitle(p)
    \/ \E u \in Ids(TwoUsers) : CollectUser("w2", u)
    \/ DeleteUser("w2")
    \/ \E r \in 1..MaxReviews : DeleteReview("w2", r)
    \/ \E g \in Ids(OneGenre) : DeleteGenre("w2", g)

SpecCascade == InitCascade /\ [][NextCascade]_vars

CascadeSteps ==
    /\ \A p \in Procs :
        (txn[p].pc = "collected" /\ txn[p].op = "delete_title" /\ txn'[p].pc = "idle") =>
            LET t == txn[p].req.id
                mine == {r \in reviews : r.title = t}
            IN  IF Ids(mine) \subseteq txn[p].req.held
                THEN /\ result' = Ok("delete_title")
                     /\ titles' = {x \in titles : x.id # t}
                     /\ reviews' = reviews \ mine
                     /\ comments' = {c \in comments : c.review \notin Ids(mine)}
                     /\ users' = users
                ELSE /\ result' = Failed("delete_title", "IntegrityError", "reference")
                     /\ db' = db
    /\ \A t \in titles :
        t.id \notin Ids(titles') =>
            /\ \A r \in reviews' : r.title # t.id
            /\ \A c \in comments' : c.review \in Ids(reviews')

\* C2: a Title's delete() removes, in one step, the Title, every Review whose
\* title it is and every Comment on those Reviews and nothing else of them,
\* whatever was created before it; after any step that removes a Title no
\* Review references it and no Comment references a Review that is gone.  (A
\* delete whose collector missed a Review inserted meanwhile is refused and
\* removes nothing.)
C2_TitleDeleteCascades == [][CascadeSteps]_vars

\* C2's case: a Title with reviews and a comment was deleted, all are gone,
\* and both authors are still there.
C2_Witness ==
    /\ result = Ok("delete_title")
    /\ titles = {} /\ reviews = {} /\ comments = {}
    /\ seq.review = MaxReviews /\ seq.comment >= 1
    /\ users = TwoUsers

\* C7: no reachable state holds a Review whose title or author is missing, a
\* Comment whose review or author is missing, or a GenreTitle row whose title
\* or genre is missing, however deletes and creates interleave.
C7_NoOrphans ==
    /\ \A r \in reviews :
        (\E t \in titles : t.id = r.title) /\ (\E u \in users : u.id = r.author)
    /\ \A c \in comments :
        (\E r \in reviews : r.id = c.review) /\ (\E u \in users : u.id = c.author)
    /\ \A x \in genretitles :
        (\E t \in titles : t.id = x.title) /\ (\E g \in genres : g.id = x.genre)

\* C7's case: a delete met a Review inserted after its collector had read the
\* table, and was refused with that Review and a Comment stored.
C7_Witness ==
    /\ result \in {Failed("delete_title", "IntegrityError", "reference"),
                   Failed("delete_user", "IntegrityError", "reference")}
    /\ reviews # {} /\ comments # {}

(***************************************************************************)
(* SpecCategory: one client deletes categories and reassigns titles.       *)
(***************************************************************************)
TwoCategories == {[id |-> 1, slug |-> "s1"], [id |-> 2, slug |-> "s2"]}
ThreeTitles == {[id |-> 1, year |-> CurrentYear, category |-> 1],
                [id |-> 2, year |-> CurrentYear - 1, category |-> 2],
                [id |-> 3, year |-> CurrentYear, category |-> 1]}
CategoryRefs == {NULL, 1, 2, 3}

InitCategory ==
    /\ users = TwoUsers
    /\ categories = TwoCategories
    /\ genres = OneGenre
    /\ titles = ThreeTitles
    /\ genretitles = {[id |-> 1, title |-> 1, genre |-> 1]}
    /\ reviews = {[id |-> 1, title |-> 1, author |-> 1, score |-> MIN_SCORE_VALUE,
                   pub_date |-> 0]}
    /\ comments = {[id |-> 1, review |-> 1, author |-> 2, pub_date |-> 0]}
    /\ seq = [EmptySeq EXCEPT !.user = 2, !.category = 2, !.genre = 1, !.title = 3,
                              !.genretitle = 1, !.review = 1, !.comment = 1]
    /\ now = 0
    /\ txn = [p \in Procs |-> Idle]
    /\ result = Ok("none")
    /\ seen = NoRead

NextCategory ==
    \/ \E c \in CategoryRefs : CollectCategory("w1", c)
    \/ DeleteCategory("w1")
    \/ \E t \in Ids(ThreeTitles), c \in CategoryRefs : RawUpdateTitle("w1", t, c)
    \/ \E slug \in {"s1", "s2", "s3"} : RawCreateTaxonomy("w1", "category", slug)

SpecCategory == InitCategory /\ [][NextCategory]_vars

CategoryDeleteStep ==
    \A c \in categories :
        c.id \notin Ids(categories') =>
            /\ categories' = categories \ {c}
            /\ Ids(titles') = Ids(titles)
            /\ \A t \in titles : \A t2 \in titles' :
                t.id = t2.id =>
                    /\ t2.year = t.year
                    /\ t2.category = IF t.category = c.id THEN NULL ELSE t.category
            /\ genretitles' = genretitles
            /\ reviews' = reviews
            /\ comments' = comments
            /\ users' = users /\ genres' = genres
            /\ result' = Ok("delete_category")

CategoryDeleteHappens ==
    (txn["w1"].pc = "collected" /\ txn["w1"].op = "delete_category" /\ txn'["w1"].pc = "idle")
        => txn["w1"].req.id \notin Ids(categories')

\* C3: a Category's delete() removes the Category and no Title: each Title
\* that referenced it is still stored with category NULL and its year
\* unchanged, each other Title is stored as it was, and no GenreTitle, Review
\* or Comment row changes.
C3_CategoryDeleteKeepsTitles == [][CategoryDeleteStep /\ CategoryDeleteHappens]_vars

\* C3's case: category 1, referenced by titles 1 and 3, was deleted; both are
\* kept without a category and title 2 still references category 2.
C3_Witness ==
    /\ result = Ok("delete_category")
    /\ Ids(categories) = {2}
    /\ titles = {[id |-> 1, year |-> CurrentYear, category |-> NULL],
                 [id |-> 2, year |-> CurrentYear - 1, category |-> 2],
                 [id |-> 3, year |-> CurrentYear, category |-> NULL]}

(***************************************************************************)
(* SpecGenre: two clients add and remove the genres of two titles.         *)
(***************************************************************************)
TwoTitles == {[id |-> 1, year |-> CurrentYear, category |-> NULL],
              [id |-> 2, year |-> CurrentYear, category |-> NULL]}
TwoGenres == {[id |-> 1, slug |-> "s1"], [id |-> 2, slug |-> "s2"]}
GenreRefs == {1, 2, 3}

InitGenre ==
    /\ users = {} /\ categories = {}
    /\ titles = TwoTitles
    /\ genres = TwoGenres
    /\ genretitles = {} /\ reviews = {} /\ comments = {}
    /\ seq = [EmptySeq EXCEPT !.title = 2, !.genre = 2]
    /\ now = 0
    /\ txn = [p \in Procs |-> Idle]
    /\ result = Ok("none")
    /\ seen = NoRead

NextGenre ==
    \/ \E p \in Procs, t \in 1..3, g \in GenreRefs : AddGenreCheck(p, t, g)
    \/ \E p \in Procs : AddGenreInsert(p)
    \/ \E p \in Procs, t \in 1..3, g \in GenreRefs : RemoveGenre(p, t, g)
    \/ \E p \in Procs, t \in 1..3, g \in GenreRefs : RawCreateGenreTitle(p, t, g)
    \/ \E p \in Procs, id \in 1..MaxLinks : DeleteGenreTitle(p, id)

SpecGenre == InitGenre /\ [][NextGenre]_vars

\* C8: a GenreTitle row is its (title, genre) pair and nothing more, so a
\* title's genres and its rows correspond one to one: in every reachable
\* state there is at most one row per pair, and a step that removes a pair's
\* row removes the genre from the title.
C8_OneRowPerPair ==
    \A x, y \in genretitles : (x.title = y.title /\ x.genre = y.genre) => x = y

(***************************************************************************)
(* SpecDates: the clock runs while reviews and comments are written.       *)
(***************************************************************************)
DateScores == {MIN_SCORE_VALUE, MAX_SCORE_VALUE}

NextDates ==
    \/ Tick
    \/ \E pd \in Supplied : RawCreateReview("w1", 1, 1, MIN_SCORE_VALUE, pd)
    \/ \E r \in 1..MaxReviews, pd \in Supplied : RawCreateComment("w1", r, 1, pd)
    \/ \E id \in 1..MaxReviews, s \in DateScores : CleanReviewUpdate("w2", id, s)
    \/ SaveReviewUpdate("w2")
    \/ \E id \in 1..MaxReviews, s \in DateScores, pd \in Supplied :
            RawUpdateReview("w1", id, s, pd)
    \/ \E id \in 1..MaxComments, pd \in Supplied : RawUpdateComment("w1", id, pd)

SpecDates == InitReview /\ [][NextDates]_vars

PubDatesKept ==
    /\ \A r \in reviews : \A r2 \in reviews' : r.id = r2.id => r2.pub_date = r.pub_date
    /\ \A c \in comments : \A c2 \in comments' : c.id = c2.id => c2.pub_date = c.pub_date

PubDatesSetByServer ==
    /\ \A r \in reviews' : r.id \notin Ids(reviews) => r.pub_date = now
    /\ \A c \in comments' : c.id \notin Ids(comments) => c.pub_date = now

AssignsPubDate ==
    \/ \E p \in Procs, id \in 1..MaxReviews, s \in DateScores, t \in Times :
            RawUpdateReview(p, id, s, {t})
    \/ \E p \in Procs, id \in 1..MaxComments, t \in Times : RawUpdateComment(p, id, {t})

StaleWriteBack(r, r2) ==
    \E p \in Procs :
        /\ txn[p].pc = "cleaned" /\ txn[p].op = "update_review"
        /\ txn[p].req.id = r.id
        /\ txn'[p].pc = "idle"
        /\ r2.pub_date = txn[p].req.pub_date

PubDatesKeptOrWrittenBack ==
    /\ \A r \in reviews : \A r2 \in reviews' :
        r.id = r2.id => (r2.pub_date = r.pub_date \/ StaleWriteBack(r, r2))
    /\ \A c \in comments : \A c2 \in comments' : c.id = c2.id => c2.pub_date = c.pub_date

ErrorUsernames == {"ann", "bob", "me", "b d"}
ErrorScores == {5, 8, MAX_SCORE_VALUE + 1}
Years == {CurrentYear, CurrentYear + 1}

Rows ==
    Cardinality(users) + Cardinality(categories) + Cardinality(genres)
        + Cardinality(titles) + Cardinality(genretitles) + Cardinality(reviews)
        + Cardinality(comments)

NextErrors ==
    \/ \E name \in ErrorUsernames, mail \in Emails : CleanUser("w1", name, mail)
    \/ Rows < MaxRows /\ SaveUser("w1")
    \/ \E name \in {"ann", "bob"}, mail \in Emails :
            Rows < MaxRows /\ RawCreateUser("w1", name, mail, DefaultRole, FALSE)
    \/ \E id \in UserRefs, name \in {"ann", "bob"} :
            RawUpdateUser("w1", id, name, DefaultRole, FALSE)
    \/ \E kind \in Kinds, slug \in Slugs : CleanTaxonomy("w1", kind, slug)
    \/ Rows < MaxRows /\ SaveTaxonomy("w1")
    \/ \E kind \in Kinds, slug \in Slugs : Rows < MaxRows /\ RawCreateTaxonomy("w1", kind, slug)
    \/ \E year \in Years, cat \in {NULL, 1, 3} : CleanTitle("w1", year, cat)
    \/ Rows < MaxRows /\ SaveTitle("w1")
    \/ \E cat \in {NULL, 1, 3} : Rows < MaxRows /\ RawCreateTitle("w1", CurrentYear, cat)
    \/ \E t \in TitleRefs, a \in UserRefs, s \in ErrorScores : CleanReview("w1", t, a, s)
    \/ Rows < MaxRows /\ SaveReview("w1")
    \/ \E t \in TitleRefs, a \in UserRefs : Rows < MaxRows /\ RawCreateReview("w1", t, a, 8, {})
    \/ \E id \in ReviewRefs, s \in ErrorScores : CleanReviewUpdate("w1", id, s)
    \/ SaveReviewUpdate("w1")
    \/ \E r \in ReviewRefs, a \in UserRefs : CleanComment("w1", r, a)
    \/ Rows < MaxRows /\ SaveComment("w1")
    \/ \E r \in ReviewRefs, a \in UserRefs : Rows < MaxRows /\ RawCreateComment("w1", r, a, {})
    \/ \E t \in TitleRefs, g \in GenreRefs : AddGenreCheck("w1", t, g)
    \/ Rows < MaxRows /\ AddGenreInsert("w1")
    \/ \E t \in TitleRefs, g \in GenreRefs : Rows < MaxRows /\ RawCreateGenreTitle("w1", t, g)

SpecErrors == InitEmpty /\ [][NextErrors]_vars

FailureChangesNothing ==
    /\ result'.status # "ok" => (db' = db /\ seq' = seq)
    /\ (result'.status # "ok" /\ result' # result) => txn' = [p \in Procs |-> Idle]
    /\ result'.status \in {"ok", "ValidationError", "IntegrityError", "DoesNotExist"}
    /\ result'.status = "ok" <=> result'.kind = "none"

\* C10: a create or update that fails (a validation error, a uniqueness
\* error, a missing referenced row) reports the failure and leaves every
\* table as it was, with nothing pending to be retried; valid operations
\* after it succeed.
C10_FailureChangesNothing == [][FailureChangesNothing]_vars

\* C10's case: with the score-8 Review of title 1 by user 1 stored alone, a
\* second Review for the pair was refused as a duplicate.
C10_Witness ==
    /\ result.op = "create_review" /\ result.kind = "unique"
    /\ reviews = {[id |-> 1, title |-> 1, author |-> 1, score |-> 8, pub_date |-> 0]}

====
